---- MODULE Spec2Model ----
(***************************************************************************)
(* Model of generate_enhanced_data.py: the two binners                     *)
(* (interpolate_bins_linear, pareto_distribution_bins), the assembler      *)
(* generate_enhanced_bins and normalize_bins, each run statement by        *)
(* statement so that a loop that never exits is a cycle of the model.      *)
(*                                                                         *)
(* Numbers.  Wealth boundaries are Python ints and are kept as integers.   *)
(* Every other quantity is a real number; the model computes it exactly,   *)
(* as a reduced fraction <<n, d>> with d > 0.  A real number that is not   *)
(* a fraction (x ** 1.5 for most x) is the single value Irr.               *)
(*                                                                         *)
(* Units.  Python ints are unbounded, TLC's integers are 32 bits wide, so *)
(* the fixed constants are written in thousands of USD (boundaries),       *)
(* millions of adults (populations) and billions of USD (wealth totals).   *)
(* Every formula of the program is homogeneous in these units.             *)
(***************************************************************************)
EXTENDS Integers, Sequences, FiniteSets, TLC

(* ------------------------------ bounds -------------------------------- *)
\* Largest boundary (min_val, max_val, min_wealth, max_wealth) of a direct call.
MaxWealth == 6
\* Steps of a direct call range over -MaxNegStep .. MaxStep.
MaxNegStep == 2
MaxStep == 3
\* The non-zero total_pop and total_wealth of a direct call.
SomePop == 12
SomeWealth == 5
\* A second non-zero total_wealth, for the pair of calls compared on wealth.
OtherWealth == 7

(* ---------------------------- constants ------------------------------- *)
\* TOTAL_POPULATION, in millions of adults.
TOTAL_POPULATION == 3767
\* TOTAL_WEALTH, in billions of USD.
TOTAL_WEALTH == 454400

(* ------------------------- exact arithmetic --------------------------- *)
\* The arithmetic is written as functions, which are applied to values: an
\* operator's argument is an expression, evaluated again at each of its uses.
Abs(n) == IF n < 0 THEN -n ELSE n

GCD[a \in Nat, b \in Nat] == IF b = 0 THEN a ELSE GCD[b, a % b]

LCM(a, b) == (a \div GCD[a, b]) * b

\* A fraction <<n, d>>; the real number that is not a fraction is <<0, 0>>.
Q == Int \X Int
Irr == <<0, 0>>
IsIrr(x) == x[2] = 0

NormF[n \in Int, d \in Int] ==
    LET s == IF d < 0 THEN -1 ELSE 1
        g == GCD[Abs(n), Abs(d)]
    IN  <<(s * n) \div g, (s * d) \div g>>
Norm(n, d) == NormF[n, d]

R(n) == <<n, 1>>
Zero == R(0)
One == R(1)

IsZero(x) == ~IsIrr(x) /\ x[1] = 0
IsPos(x) == ~IsIrr(x) /\ x[1] > 0
IsNeg(x) == ~IsIrr(x) /\ x[1] < 0

RNeg(a) == IF IsIrr(a) THEN Irr ELSE <<-a[1], a[2]>>

RAddF[a \in Q, b \in Q] ==
    IF IsIrr(a) \/ IsIrr(b) THEN Irr
    ELSE LET l == LCM(a[2], b[2])
         IN  Norm(a[1] * (l \div a[2]) + b[1] * (l \div b[2]), l)
RAdd(a, b) == RAddF[a, b]

RSub(a, b) == RAddF[a, RNeg(b)]

RMulF[a \in Q, b \in Q] ==
    IF IsZero(a) \/ IsZero(b) THEN Zero
    ELSE IF IsIrr(a) \/ IsIrr(b) THEN Irr
    ELSE LET g1 == GCD[Abs(a[1]), b[2]]
             g2 == GCD[Abs(b[1]), a[2]]
         IN  Norm((a[1] \div g1) * (b[1] \div g2), (a[2] \div g2) * (b[2] \div g1))
RMul(a, b) == RMulF[a, b]

\* a / b for b # 0 (a Python division by zero raises: see the Raises operators).
RDivF[a \in Q, b \in Q] ==
    IF IsIrr(a) \/ IsIrr(b) \/ IsZero(b) THEN Irr
    ELSE RMulF[a, Norm(b[2], b[1])]
RDiv(a, b) == RDivF[a, b]

RLessF[a \in Q, b \in Q] == a[1] * b[2] < b[1] * a[2]
RLess(a, b) == RLessF[a, b]

RPowNat[a \in Q, k \in Nat] == IF k = 0 THEN One ELSE RMulF[a, RPowNat[a, k - 1]]

\* base ** alpha.  Exact for an integral alpha; for a fractional alpha exact
\* at the bases 0 and 1 only.
PowF[base \in Q, alpha \in Q] ==
    IF IsIrr(base) THEN Irr
    ELSE IF alpha[2] = 1
         THEN IF alpha[1] >= 0 THEN RPowNat[base, alpha[1]]
              ELSE RDivF[One, RPowNat[base, -alpha[1]]]
         ELSE IF base = One THEN One
              ELSE IF base = Zero THEN Zero
              ELSE Irr
Pow(base, alpha) == PowF[base, alpha]

\* Python raises ZeroDivisionError for 0 ** negative.
PowRaises(base, alpha) == IsZero(base) /\ IsNeg(alpha)

\* int(a / b) for integers a, b with b # 0: truncation toward zero.
TruncDiv(a, b) ==
    IF (a >= 0) = (b > 0) THEN Abs(a) \div Abs(b) ELSE -(Abs(a) \div Abs(b))

RECURSIVE SumSeq(_)
SumSeq(s) == IF s = <<>> THEN Zero ELSE RAdd(Head(s), SumSeq(Tail(s)))

Min2(a, b) == IF a < b THEN a ELSE b

\* An optional boundary: None, or Some(v).
None == <<>>
Some(v) == <<v>>

(* ------------------------------ state --------------------------------- *)
VARIABLES
    fn,             \* the function being executed: "idle" before any call
    pc,             \* the statement it is at
    outcome,        \* "none", "running", "returned", or the exception raised
    args,           \* the parameters of the binner call in progress
    current,        \* interpolate_bins_linear / pareto_distribution_bins: current
    num_bins,       \* interpolate_bins_linear: num_bins
    pop_per_bin,    \* interpolate_bins_linear: pop_per_bin
    wealth_per_bin, \* interpolate_bins_linear: wealth_per_bin
    pos,            \* pareto_distribution_bins: pos
    positions,      \* pareto_distribution_bins: positions
    cdf_values,     \* pareto_distribution_bins: cdf_values
    i,              \* the index of the for loop in progress (1-based)
    bins,           \* the list `bins` of the function in progress; its result
    alt_bins,       \* `bins` of the same Pareto call made with args.alt_wealth
    stage,          \* generate_enhanced_bins: which of its six calls; 0 outside
    all_bins,       \* generate_enhanced_bins: all_bins
    bins_in,        \* normalize_bins: the bins as they were passed in
    pop_ratio,      \* normalize_bins: pop_ratio
    wealth_ratio    \* normalize_bins: wealth_ratio

linVars == <<num_bins, pop_per_bin, wealth_per_bin>>
parVars == <<pos, positions, cdf_values, alt_bins>>
genVars == <<stage, all_bins>>
normVars == <<bins_in, pop_ratio, wealth_ratio>>
vars == <<fn, pc, outcome, args, current, i, bins, linVars, parVars, genVars, normVars>>

NoArgs == [min |-> 0, max |-> 0, step |-> 0, total_pop |-> 0, total_wealth |-> 0,
           alpha |-> Zero, alt_wealth |-> 0]

Init ==
    /\ fn = "idle" /\ pc = "idle" /\ outcome = "none"
    /\ args = NoArgs
    /\ current = 0 /\ num_bins = 0 /\ pop_per_bin = Zero /\ wealth_per_bin = Zero
    /\ pos = 0 /\ positions = <<>> /\ cdf_values = <<>>
    /\ i = 0 /\ bins = <<>> /\ alt_bins = <<>>
    /\ stage = 0 /\ all_bins = <<>>
    /\ bins_in = <<>> /\ pop_ratio = Zero /\ wealth_ratio = Zero

\* The inputs of a direct call of a binner.
Wealths == 0 .. MaxWealth
Steps == (0 - MaxNegStep) .. MaxStep
Pops == {0, SomePop}
TotalWealths == {0, SomeWealth}
AltWealths == {SomeWealth, OtherWealth}
\* One shape parameter of each kind the code tells apart: negative, zero,
\* alpha <= 1 (midpoint and x2 fallbacks) and alpha > 1 (closed-form means).
Alphas == {R(k) : k \in {-1, 0, 1, 2}}

\* A loop that cannot exit (step <= 0) is followed exactly for MaxTrack
\* iterations; from then on its data are no longer recorded, only its control.
\* Every loop that exits does so within MaxWealth + 1 iterations.
MaxTrack == MaxWealth + 2

Raise(e) == /\ pc' = "raised" /\ outcome' = e

\* return: to the caller generate_enhanced_bins when there is one.
Return ==
    /\ pc' = "done"
    /\ outcome' = IF stage = 0 THEN "returned" ELSE "running"

(* ---------------------- interpolate_bins_linear ----------------------- *)
\* The bin appended by one iteration of the while loop.
LinearBin(lo, hi, ppb, wpb) ==
    [min_wealth_usd |-> lo,
     max_wealth_usd |-> Some(hi),
     population_count |-> ppb,
     population_share |-> RDiv(ppb, R(TOTAL_POPULATION)),
     total_wealth_usd |-> wpb,
     data_quality |-> "interpolated",
     method |-> <<"linear_subdivision">>]

\* bins = []; current = min_val
EnterInterpolate(a) ==
    /\ fn' = "interpolate" /\ pc' = "i_num_bins"
    /\ args' = a
    /\ bins' = <<>> /\ current' = a.min
    /\ UNCHANGED <<i, linVars, parVars, normVars>>

CallInterpolate ==
    /\ fn = "idle"
    /\ \E mn \in Wealths, mx \in Wealths, st \in Steps, tp \in Pops, tw \in TotalWealths :
          EnterInterpolate([min |-> mn, max |-> mx, step |-> st, total_pop |-> tp,
                            total_wealth |-> tw, alpha |-> Zero, alt_wealth |-> tw])
    /\ outcome' = "running"
    /\ UNCHANGED genVars

\* num_bins = int((max_val - min_val) / step)
NumBins(min_val, max_val, step) == TruncDiv(max_val - min_val, step)

\* num_bins, pop_per_bin, wealth_per_bin; either division may raise.
InterpolateSetup ==
    /\ fn = "interpolate" /\ pc = "i_num_bins"
    /\ IF args.step = 0 \/ NumBins(args.min, args.max, args.step) = 0
       THEN /\ Raise("ZeroDivisionError")
            /\ UNCHANGED linVars
       ELSE /\ num_bins' = NumBins(args.min, args.max, args.step)
            /\ pop_per_bin' = RDiv(R(args.total_pop), R(num_bins'))
            /\ wealth_per_bin' = RDiv(R(args.total_wealth), R(num_bins'))
            /\ pc' = "i_while"
            /\ UNCHANGED outcome
    /\ UNCHANGED <<fn, args, current, i, bins, parVars, genVars, normVars>>

\* while current < max_val:
InterpolateWhile ==
    /\ fn = "interpolate" /\ pc = "i_while"
    /\ pc' = IF current < args.max THEN "i_body" ELSE "i_return"
    /\ UNCHANGED <<fn, outcome, args, current, i, bins, linVars, parVars, genVars, normVars>>

\* bin_max = min(current + step, max_val); bins.append(...); current = bin_max
InterpolateBody ==
    /\ fn = "interpolate" /\ pc = "i_body"
    /\ IF args.step <= 0 /\ Len(bins) >= MaxTrack
       THEN UNCHANGED <<bins, current>>
       ELSE LET bin_max == Min2(current + args.step, args.max)
            IN  /\ bins' = Append(bins, LinearBin(current, bin_max, pop_per_bin, wealth_per_bin))
                /\ current' = bin_max
    /\ pc' = "i_while"
    /\ UNCHANGED <<fn, outcome, args, i, linVars, parVars, genVars, normVars>>

\* return bins
InterpolateReturn ==
    /\ fn = "interpolate" /\ pc = "i_return"
    /\ Return
    /\ UNCHANGED <<fn, args, current, i, bins, linVars, parVars, genVars, normVars>>

(* ---------------------- pareto_distribution_bins ---------------------- *)
\* bins = []; current = min_wealth; cdf_values = []; positions = []; pos = current
EnterPareto(a) ==
    /\ fn' = "pareto" /\ pc' = "p_while"
    /\ args' = a
    /\ bins' = <<>> /\ alt_bins' = <<>> /\ current' = a.min
    /\ cdf_values' = <<>> /\ positions' = <<>> /\ pos' = a.min
    /\ UNCHANGED <<i, linVars, normVars>>

CallPareto ==
    /\ fn = "idle"
    /\ \E mn \in Wealths, mx \in Wealths, st \in Steps, tp \in Pops,
          tw \in TotalWealths, aw \in AltWealths, al \in Alphas :
          EnterPareto([min |-> mn, max |-> mx, step |-> st, total_pop |-> tp,
                       total_wealth |-> tw, alpha |-> al, alt_wealth |-> aw])
    /\ outcome' = "running"
    /\ UNCHANGED genVars

\* while pos <= max_wealth:
ParetoWhile ==
    /\ fn = "pareto" /\ pc = "p_while"
    /\ pc' = IF pos <= args.max THEN "p_cdf" ELSE "p_final_point"
    /\ UNCHANGED <<fn, outcome, args, current, i, bins, linVars, parVars, genVars, normVars>>

\* Cdf with the ratio the wrong way up: 1 - (x / min_wealth) ** alpha.
CdfInverted(min_wealth, x, alpha) == RSub(One, Pow(RDiv(R(x), R(min_wealth)), alpha))

\* 1 - (min_wealth / x) ** alpha
Cdf(min_wealth, x, alpha) == RSub(One, Pow(RDiv(R(min_wealth), R(x)), alpha))

\* min_wealth / x divides by zero, or 0.0 is raised to a negative power.
CdfRaises(min_wealth, x, alpha) ==
    \/ x = 0
    \/ PowRaises(RDiv(R(min_wealth), R(x)), alpha)

\* cdf_val = ...; cdf_values.append(cdf_val); positions.append(pos); pos += step
ParetoCdfBody ==
    /\ fn = "pareto" /\ pc = "p_cdf"
    /\ IF CdfRaises(args.min, pos, args.alpha)
       THEN /\ Raise("ZeroDivisionError")
            /\ UNCHANGED <<pos, positions, cdf_values>>
       ELSE /\ IF args.step <= 0 /\ Len(positions) >= MaxTrack
               THEN UNCHANGED <<pos, positions, cdf_values>>
               ELSE /\ cdf_values' = Append(cdf_values, Cdf(args.min, pos, args.alpha))
                    /\ positions' = Append(positions, pos)
                    /\ pos' = pos + args.step
            /\ pc' = "p_while"
            /\ UNCHANGED outcome
    /\ UNCHANGED <<fn, args, current, i, bins, alt_bins, linVars, genVars, normVars>>

\* if positions[-1] < max_wealth: append the final point
ParetoFinalPoint ==
    /\ fn = "pareto" /\ pc = "p_final_point"
    /\ IF positions = <<>>
       THEN /\ Raise("IndexError")
            /\ UNCHANGED <<positions, cdf_values, i>>
       ELSE /\ IF positions[Len(positions)] < args.max
               THEN /\ cdf_values' = Append(cdf_values, Cdf(args.min, args.max, args.alpha))
                    /\ positions' = Append(positions, args.max)
               ELSE UNCHANGED <<positions, cdf_values>>
            /\ pc' = "p_for"
            /\ i' = 1
            /\ UNCHANGED outcome
    /\ UNCHANGED <<fn, args, current, pos, bins, alt_bins, linVars, genVars, normVars>>

\* wealth_mean of the bin [bin_min, bin_max]
WealthMean(min_wealth, alpha, bin_min, bin_max) ==
    IF RLess(One, alpha)
    THEN RMul(RMul(RDiv(alpha, RSub(alpha, One)), R(min_wealth)),
              RDiv(RSub(Pow(R(bin_min), RSub(One, alpha)), Pow(R(bin_max), RSub(One, alpha))),
                   RSub(Pow(RDiv(R(min_wealth), R(bin_min)), alpha),
                        Pow(RDiv(R(min_wealth), R(bin_max)), alpha))))
    ELSE RDiv(R(bin_min + bin_max), R(2))

WealthMeanRaises(min_wealth, alpha, bin_min, bin_max) ==
    /\ RLess(One, alpha)
    /\ \/ bin_min = 0
       \/ bin_max = 0
       \/ IsZero(RSub(Pow(RDiv(R(min_wealth), R(bin_min)), alpha),
                      Pow(RDiv(R(min_wealth), R(bin_max)), alpha)))

\* pop_fraction = cdf_values[i + 1] - cdf_values[i]
PopFraction(cdf_lo, cdf_hi) == RSub(cdf_hi, cdf_lo)

\* BinWealth as the bin's share of the wealth allocated to the range.
BinWealthAllocated(pop_count, wealth_mean, total_wealth) == RMul(pop_count, R(total_wealth))

\* bin_wealth = pop_count * wealth_mean (total_wealth is in scope and is not read)
BinWealth(pop_count, wealth_mean, total_wealth) == RMul(pop_count, wealth_mean)

\* The bin appended by one iteration of the for loop.
ParetoFiniteBin(min_wealth, total_pop, total_wealth, alpha, bin_min, bin_max, cdf_lo, cdf_hi) ==
    LET pop_count == RMul(PopFraction(cdf_lo, cdf_hi), R(total_pop))
        wealth_mean == WealthMean(min_wealth, alpha, bin_min, bin_max)
    IN  [min_wealth_usd |-> bin_min,
         max_wealth_usd |-> Some(bin_max),
         population_count |-> pop_count,
         population_share |-> RDiv(pop_count, R(TOTAL_POPULATION)),
         total_wealth_usd |-> BinWealth(pop_count, wealth_mean, total_wealth),
         data_quality |-> "modeled",
         method |-> <<"pareto_distribution_alpha", alpha>>]

\* for i in range(len(positions) - 1): one iteration
ParetoForBody ==
    /\ fn = "pareto" /\ pc = "p_for"
    /\ i <= Len(positions) - 1
    /\ IF WealthMeanRaises(args.min, args.alpha, positions[i], positions[i + 1])
       THEN /\ Raise("ZeroDivisionError")
            /\ UNCHANGED <<i, bins, alt_bins, current>>
       ELSE /\ bins' = Append(bins,
                   ParetoFiniteBin(args.min, args.total_pop, args.total_wealth, args.alpha,
                                   positions[i], positions[i + 1], cdf_values[i], cdf_values[i + 1]))
            /\ alt_bins' = Append(alt_bins,
                   ParetoFiniteBin(args.min, args.total_pop, args.alt_wealth, args.alpha,
                                   positions[i], positions[i + 1], cdf_values[i], cdf_values[i + 1]))
            /\ current' = positions[i + 1]
            /\ i' = i + 1
            /\ UNCHANGED <<pc, outcome>>
    /\ UNCHANGED <<fn, args, pos, positions, cdf_values, linVars, genVars, normVars>>

\* FinalPopFraction read from the first CDF value instead of the last.
FinalPopFractionFirst(cdfs) == RSub(One, cdfs[1])

\* final_pop_fraction = 1 - cdf_values[-1]
FinalPopFraction(cdfs) == RSub(One, cdfs[Len(cdfs)])

\* final_wealth_mean
FinalWealthMean(alpha, max_wealth) ==
    IF RLess(One, alpha)
    THEN RMul(RDiv(alpha, RSub(alpha, One)), R(max_wealth))
    ELSE R(max_wealth * 2)

\* The open-ended bin appended after the loop.
ParetoOpenBin(max_wealth, total_pop, total_wealth, alpha, cdfs) ==
    LET final_pop == RMul(FinalPopFraction(cdfs), R(total_pop))
    IN  [min_wealth_usd |-> max_wealth,
         max_wealth_usd |-> None,
         population_count |-> final_pop,
         population_share |-> RDiv(final_pop, R(TOTAL_POPULATION)),
         total_wealth_usd |-> RMul(final_pop, FinalWealthMean(alpha, max_wealth)),
         data_quality |-> "modeled",
         method |-> <<"pareto_distribution_alpha_open_ended", alpha>>]

\* The loop is over: append the open-ended bin and return bins.
ParetoReturn ==
    /\ fn = "pareto" /\ pc = "p_for"
    /\ i > Len(positions) - 1
    /\ bins' = Append(bins,
           ParetoOpenBin(args.max, args.total_pop, args.total_wealth, args.alpha, cdf_values))
    /\ alt_bins' = Append(alt_bins,
           ParetoOpenBin(args.max, args.total_pop, args.alt_wealth, args.alpha, cdf_values))
    /\ Return
    /\ UNCHANGED <<fn, args, current, i, pos, positions, cdf_values, linVars, genVars, normVars>>

(* ----------------------- generate_enhanced_bins ----------------------- *)
\* The six binner calls, in order: thousands of USD, millions of adults,
\* billions of USD.  Calls 1-3 are interpolate_bins_linear, 4-6 are
\* pareto_distribution_bins with alpha 1.5, 1.4 and 1.3.
NumCalls == 6

CallArgs(k) ==
    LET a(mn, mx, st, tp, tw, al) ==
            [min |-> mn, max |-> mx, step |-> st, total_pop |-> tp,
             total_wealth |-> tw, alpha |-> al, alt_wealth |-> tw]
    IN  CASE k = 1 -> a(0, 10, 10, 1488, 5208, Zero)
          [] k = 2 -> a(10, 100, 10, 1608, 56280, Zero)
          [] k = 3 -> a(100, 1000, 25, 613, 196160, Zero)
          [] k = 4 -> a(1000, 100000, 10000, 50, 180000, <<3, 2>>)
          [] k = 5 -> a(100000, 1000000, 100000, 5, 10000, <<7, 5>>)
          [] k = 6 -> a(1000000, 100000000, 10000000, 3, 6752, <<13, 10>>)

CallIsPareto(k) == k >= 4

\* Contribution without the [:-1] of calls 4 and 5.
ContributionKeepsTail(k, bs) == bs

\* What call k contributes to all_bins: bs, or bs[:-1] for calls 4 and 5.
Contribution(k, bs) ==
    IF k \in {4, 5} THEN SubSeq(bs, 1, Len(bs) - 1) ELSE bs

\* all_bins = []
CallGenerate ==
    /\ fn = "idle"
    /\ fn' = "generate" /\ pc' = "g_call" /\ outcome' = "running"
    /\ stage' = 1 /\ all_bins' = <<>>
    /\ UNCHANGED <<args, current, i, bins, linVars, parVars, normVars>>

\* The next call of a binner.
GenerateCall ==
    /\ fn = "generate" /\ pc = "g_call"
    /\ IF CallIsPareto(stage)
       THEN EnterPareto(CallArgs(stage))
       ELSE EnterInterpolate(CallArgs(stage)) /\ UNCHANGED alt_bins
    /\ UNCHANGED <<outcome, genVars>>

\* all_bins.extend(...), then the next call, or return all_bins after the last.
GenerateExtend ==
    /\ fn \in {"interpolate", "pareto"} /\ pc = "done" /\ stage > 0
    /\ all_bins' = all_bins \o Contribution(stage, bins)
    /\ fn' = "generate"
    /\ IF stage = NumCalls
       THEN /\ pc' = "done" /\ outcome' = "returned"
            /\ bins' = all_bins'
            /\ UNCHANGED stage
       ELSE /\ pc' = "g_call"
            /\ stage' = stage + 1
            /\ UNCHANGED <<outcome, bins>>
    /\ UNCHANGED <<args, current, i, linVars, parVars, normVars>>

(* --------------------------- normalize_bins --------------------------- *)
Populations(bs) == [k \in 1 .. Len(bs) |-> bs[k].population_count]
WealthsOf(bs) == [k \in 1 .. Len(bs) |-> bs[k].total_wealth_usd]

\* Every population_count and total_wealth_usd of bs is a fraction.
Representable(bs) ==
    \A k \in 1 .. Len(bs) :
        ~IsIrr(bs[k].population_count) /\ ~IsIrr(bs[k].total_wealth_usd)

\* normalize_bins(bins) on what a direct call of a binner returned.
CallNormalize ==
    /\ fn \in {"interpolate", "pareto"} /\ pc = "done" /\ stage = 0
    /\ Representable(bins)
    /\ fn' = "normalize" /\ pc' = "n_ratios" /\ outcome' = "running"
    /\ bins_in' = bins
    /\ UNCHANGED <<args, current, i, bins, pop_ratio, wealth_ratio, linVars, parVars, genVars>>

\* RatioRaises for a division that yields a value for a zero divisor.
RatioNeverRaises(computed) == FALSE

\* TOTAL / computed raises when computed is zero.
RatioRaises(computed) == IsZero(computed)

\* PopRatio taken over the wrong column.
PopRatioOfWealth(bs) == RDiv(R(TOTAL_POPULATION), SumSeq(WealthsOf(bs)))

\* pop_ratio = TOTAL_POPULATION / total_pop_computed
PopRatio(bs) == RDiv(R(TOTAL_POPULATION), SumSeq(Populations(bs)))

\* wealth_ratio = TOTAL_WEALTH / total_wealth_computed
WealthRatio(bs) == RDiv(R(TOTAL_WEALTH), SumSeq(WealthsOf(bs)))

\* The two sums and the two ratios; either division may raise.
NormalizeRatios ==
    /\ fn = "normalize" /\ pc = "n_ratios"
    /\ IF RatioRaises(SumSeq(Populations(bins))) \/ RatioRaises(SumSeq(WealthsOf(bins)))
       THEN /\ Raise("ZeroDivisionError")
            /\ UNCHANGED <<pop_ratio, wealth_ratio, i>>
       ELSE /\ pop_ratio' = PopRatio(bins)
            /\ wealth_ratio' = WealthRatio(bins)
            /\ pc' = "n_for"
            /\ i' = 1
            /\ UNCHANGED outcome
    /\ UNCHANGED <<fn, args, current, bins, bins_in, linVars, parVars, genVars>>

\* avg_wealth_usd = total_wealth_usd / population_count if population_count > 0 else 0
AvgWealth(total_wealth_usd, population_count) ==
    IF IsPos(population_count) THEN RDiv(total_wealth_usd, population_count) ELSE Zero

\* NormalizedBin with population_share computed before the rescaling.
NormalizedBinStaleShare(b, pr, wr) ==
    LET population_count == RMul(b.population_count, pr)
        total_wealth_usd == RMul(b.total_wealth_usd, wr)
    IN  [min_wealth_usd |-> b.min_wealth_usd,
         max_wealth_usd |-> b.max_wealth_usd,
         population_count |-> population_count,
         population_share |-> RDiv(b.population_count, R(TOTAL_POPULATION)),
         total_wealth_usd |-> total_wealth_usd,
         data_quality |-> b.data_quality,
         method |-> b.method,
         wealth_share |-> RDiv(total_wealth_usd, R(TOTAL_WEALTH)),
         avg_wealth_usd |-> AvgWealth(total_wealth_usd, population_count)]

\* One bin after the body of the for loop.
NormalizedBin(b, pr, wr) ==
    LET population_count == RMul(b.population_count, pr)
        total_wealth_usd == RMul(b.total_wealth_usd, wr)
    IN  [min_wealth_usd |-> b.min_wealth_usd,
         max_wealth_usd |-> b.max_wealth_usd,
         population_count |-> population_count,
         population_share |-> RDiv(population_count, R(TOTAL_POPULATION)),
         total_wealth_usd |-> total_wealth_usd,
         data_quality |-> b.data_quality,
         method |-> b.method,
         wealth_share |-> RDiv(total_wealth_usd, R(TOTAL_WEALTH)),
         avg_wealth_usd |-> AvgWealth(total_wealth_usd, population_count)]

\* for bin in bins: one iteration
NormalizeForBody ==
    /\ fn = "normalize" /\ pc = "n_for"
    /\ i <= Len(bins)
    /\ bins' = [bins EXCEPT ![i] = NormalizedBin(bins[i], pop_ratio, wealth_ratio)]
    /\ i' = i + 1
    /\ UNCHANGED <<fn, pc, outcome, args, current, normVars, linVars, parVars, genVars>>

\* return bins
NormalizeReturn ==
    /\ fn = "normalize" /\ pc = "n_for"
    /\ i > Len(bins)
    /\ pc' = "done" /\ outcome' = "returned"
    /\ UNCHANGED <<fn, args, current, i, bins, normVars, linVars, parVars, genVars>>

Next ==
    \/ CallInterpolate
    \/ InterpolateSetup
    \/ InterpolateWhile
    \/ InterpolateBody
    \/ InterpolateReturn
    \/ CallPareto
    \/ ParetoWhile
    \/ ParetoCdfBody
    \/ ParetoFinalPoint
    \/ ParetoForBody
    \/ ParetoReturn
    \/ CallGenerate
    \/ GenerateCall
    \/ GenerateExtend
    \/ CallNormalize
    \/ NormalizeRatios
    \/ NormalizeForBody
    \/ NormalizeReturn

Spec == Init /\ [][Next]_vars

\* The interpreter runs the next statement of a call in progress.
\* The statements of a binner call in progress.
Run ==
    \/ InterpolateSetup \/ InterpolateWhile \/ InterpolateBody \/ InterpolateReturn
    \/ ParetoWhile \/ ParetoCdfBody \/ ParetoFinalPoint \/ ParetoForBody \/ ParetoReturn

FairSpec == Spec /\ WF_vars(Run)

(* --------------------------- tracking bound --------------------------- *)
\* A loop whose data are no longer recorded can neither exit nor raise later:
\* its guard holds for every value still to come, and pos has passed 0.
TrackingSound ==
    /\ (fn = "interpolate" /\ args.step <= 0 /\ Len(bins) >= MaxTrack) =>
          (args.step < 0 /\ current < args.max)
    /\ (fn = "pareto" /\ args.step <= 0 /\ Len(positions) >= MaxTrack) =>
          (pos <= args.max /\ (pos < 0 \/ (args.step = 0 /\ pos > 0)))
    /\ (pc = "done" /\ stage = 0 /\ fn \in {"interpolate", "pareto"}) =>
          (Len(bins) < MaxTrack /\ Len(positions) < MaxTrack)

(* ------------------------------ claims -------------------------------- *)
Finished == pc \in {"done", "raised"}
DirectInterpolate == fn = "interpolate" /\ stage = 0
DirectPareto == fn = "pareto" /\ stage = 0
Last(s) == s[Len(s)]
AllButLast(s) == SubSeq(s, 1, Len(s) - 1)

\* C1: the bins returned by generate_enhanced_bins start at 0, ascend strictly,
\* are contiguous, and exactly one of them, the last, has max_wealth_usd None.
C1_Partition ==
    (fn = "generate" /\ pc = "done") =>
        /\ Len(bins) > 0
        /\ bins[1].min_wealth_usd = 0
        /\ \A k \in 1 .. Len(bins) - 1 :
              /\ bins[k].min_wealth_usd < bins[k + 1].min_wealth_usd
              /\ bins[k].max_wealth_usd = Some(bins[k + 1].min_wealth_usd)
        /\ \A k \in 1 .. Len(bins) : (bins[k].max_wealth_usd = None) <=> (k = Len(bins))

\* generate_enhanced_bins has returned its 76 bins, the last one from 100 billion USD up.
C1_Witness ==
    /\ fn = "generate" /\ pc = "done" /\ outcome = "returned"
    /\ Len(bins) = 76
    /\ Last(bins).min_wealth_usd = 100000000
    /\ bins[47].min_wealth_usd = 1000 /\ bins[47].max_wealth_usd = Some(11000)

\* C2: when both sums of the bins passed in are non-zero, normalize_bins returns
\* and the population counts sum to TOTAL_POPULATION, the wealth to TOTAL_WEALTH.
C2_ExactSums ==
    (/\ fn = "normalize" /\ Finished
     /\ ~IsZero(SumSeq(Populations(bins_in)))
     /\ ~IsZero(SumSeq(WealthsOf(bins_in)))) =>
        /\ pc = "done"
        /\ SumSeq(Populations(bins)) = R(TOTAL_POPULATION)
        /\ SumSeq(WealthsOf(bins)) = R(TOTAL_WEALTH)

\* normalize_bins has rescaled several bins of unequal, fractional population.
C2_Witness ==
    /\ fn = "normalize" /\ pc = "done"
    /\ Len(bins) >= 3
    /\ bins[1].population_count # bins[2].population_count
    /\ bins[1].population_count[2] > 1
    /\ SumSeq(Populations(bins_in)) = R(SomePop)
    /\ SumSeq(Populations(bins)) = R(TOTAL_POPULATION)

\* C3 (as claimed): for 0 < step <= max - min, interpolate_bins_linear returns
\* exactly num_bins bins, each with total_pop / num_bins and
\* total_wealth / num_bins, and these sum to total_pop and total_wealth.
C3_EqualShares ==
    (/\ DirectInterpolate /\ Finished
     /\ args.step > 0 /\ args.step <= args.max - args.min) =>
        LET n == NumBins(args.min, args.max, args.step)
        IN  /\ pc = "done"
            /\ Len(bins) = n
            /\ \A k \in 1 .. Len(bins) :
                  /\ bins[k].population_count = RDiv(R(args.total_pop), R(n))
                  /\ bins[k].total_wealth_usd = RDiv(R(args.total_wealth), R(n))
            /\ SumSeq(Populations(bins)) = R(args.total_pop)
            /\ SumSeq(WealthsOf(bins)) = R(args.total_wealth)

\* C4 (as claimed): pareto_distribution_bins with max <= min or alpha <= 0
\* ends in an error and returns no bins.
C4_InvalidRangeRejected ==
    (/\ DirectPareto /\ Finished
     /\ (args.max <= args.min \/ ~IsPos(args.alpha))) =>
        /\ pc = "raised"
        /\ outcome \in {"ZeroDivisionError", "IndexError"}

\* C5 (as claimed): every direct call of a binner ends, by a return or an error.
C5_Terminates ==
    ((DirectInterpolate \/ DirectPareto) /\ outcome = "running") ~> (outcome # "running")

\* C6: when a sum over the bins passed in is zero, normalize_bins raises and
\* the bins are as they were passed in.
C6_ZeroSumFails ==
    (/\ fn = "normalize" /\ pc # "n_ratios"
     /\ \/ IsZero(SumSeq(Populations(bins_in)))
        \/ IsZero(SumSeq(WealthsOf(bins_in)))) =>
        /\ pc = "raised"
        /\ outcome = "ZeroDivisionError"
        /\ bins = bins_in

\* normalize_bins has raised on bins whose populations sum to SomePop and whose
\* wealth sums to zero.
C6_Witness ==
    /\ fn = "normalize" /\ pc = "raised"
    /\ Len(bins_in) >= 2
    /\ SumSeq(Populations(bins_in)) = R(SomePop)
    /\ IsZero(SumSeq(WealthsOf(bins_in)))
    /\ bins = bins_in

\* The arguments of the Pareto call satisfy 0 < min, step > 0, alpha > 0.
ParetoValid == args.min > 0 /\ args.step > 0 /\ IsPos(args.alpha)

C8_DerivedFields ==
    (fn = "normalize" /\ pc = "done") =>
        /\ Len(bins) = Len(bins_in)
        /\ \A k \in 1 .. Len(bins) :
              LET b == bins[k]
                  o == bins_in[k]
              IN  /\ b.population_share = RDiv(b.population_count, R(TOTAL_POPULATION))
                  /\ b.wealth_share = RDiv(b.total_wealth_usd, R(TOTAL_WEALTH))
                  /\ IsPos(b.population_count) =>
                        b.avg_wealth_usd = RDiv(b.total_wealth_usd, b.population_count)
                  /\ IsZero(b.population_count) => b.avg_wealth_usd = Zero
                  /\ b.min_wealth_usd = o.min_wealth_usd
                  /\ b.max_wealth_usd = o.max_wealth_usd
                  /\ b.data_quality = o.data_quality
                  /\ b.method = o.method

\* normalize_bins has returned bins of which one is empty and one is not.
C8_Witness ==
    /\ fn = "normalize" /\ pc = "done"
    /\ \E k \in 1 .. Len(bins) : IsZero(bins[k].population_count)
    /\ \E k \in 1 .. Len(bins) :
          /\ IsPos(bins[k].population_count)
          /\ bins[k].population_count # bins_in[k].population_count
          /\ IsPos(bins[k].avg_wealth_usd)

\* C9: for 0 < min <= max, step > 0, alpha > 0 the population counts of all the
\* returned bins sum to total_pop, and the open-ended bin holds
\* (1 - F(max)) * total_pop of it, so that dropping it removes exactly that.
C9_PopulationTelescopes ==
    (DirectPareto /\ Finished /\ ParetoValid /\ args.min <= args.max) =>
        LET tail == RMul(RSub(One, RSub(One, Pow(RDiv(R(args.min), R(args.max)), args.alpha))),
                         R(args.total_pop))
        IN  /\ pc = "done"
            /\ SumSeq(Populations(bins)) = R(args.total_pop)
            /\ Last(bins).max_wealth_usd = None
            /\ Last(bins).population_count = tail
            /\ SumSeq(Populations(AllButLast(bins))) = RSub(R(args.total_pop), tail)

\* A Pareto call has returned three or more finite bins and a tail that is
\* neither empty nor everything.
C9_Witness ==
    /\ DirectPareto /\ pc = "done" /\ ParetoValid
    /\ args.total_pop = SomePop
    /\ Len(bins) >= 4
    /\ IsPos(Last(bins).population_count)
    /\ RLess(Last(bins).population_count, R(SomePop))

\* C10: the call made with total_wealth and the same call made with another
\* total_wealth are in the same state and hold the same bins throughout.
C10_WealthIndependent ==
    DirectPareto => bins = alt_bins

\* Two Pareto calls that differ in total_wealth alone have returned bins of
\* non-zero wealth.
C10_Witness ==
    /\ DirectPareto /\ pc = "done"
    /\ args.total_wealth # args.alt_wealth
    /\ Len(bins) >= 3
    /\ IsPos(bins[1].total_wealth_usd)
    /\ bins = alt_bins

====
